---- MODULE Spec2Model ----
(***************************************************************************)
(* A model of py-pgmg-poc: the batched table gateway of common.py and the  *)
(* nested transaction scope of query_test.py (TestSQLHandle / Tx).         *)
(*                                                                         *)
(* SpecTx  : one session using TestSQLHandle.transaction() sequentially,   *)
(*           with properly nested `async with` scopes.                     *)
(* SpecGw  : one TableGateway over a two-column table, its five operations *)
(*           called against a handle that evaluates the rendered           *)
(*           statements by their relational meaning.                       *)
(***************************************************************************)
EXTENDS Integers, Sequences, FiniteSets, Bags, TLC

VARIABLES
    \* ---- TestSQLHandle / Tx (query_test.py) ----
    tx_level,     \* TestSQLHandle.tx_level
    pending,      \* the Tx returned by transaction() and not yet entered (<<>> or <<tx>>)
    stack,        \* the Tx objects whose `async with` block is open, outermost first
    exc,          \* the failure in flight ("none" when there is none)
    unwound,      \* number of scopes the failure in flight has already left
    emitted,      \* history of conn.execute calls made by __aenter__ / __aexit__
    caller_exc,   \* failures that left the outermost scope and reached its caller
    opened,       \* number of transaction() calls so far (bounded by MaxScopes)
    \* ---- TableGateway (common.py) ----
    primary_key,  \* TableMetadata.primary_key of the gateway under test
    table,        \* the rows of the target table (a bag of tuples)
    op,           \* the last gateway operation called, with its arguments
    calls,        \* the query/exec calls the handle received during that operation
    rows,         \* the rows the handle returned to that operation, in returned order
    changes,      \* the row changes that operation's statement made in the table
    result        \* what the operation returned or raised

txvars == <<tx_level, pending, stack, exc, unwound, emitted, caller_exc, opened>>
gwvars == <<primary_key, table, op, calls, rows, changes, result>>
vars == <<txvars, gwvars>>

(***************************************************************************)
(* Bounds                                                                  *)
(***************************************************************************)
MaxScopes == 3      \* transaction() calls per behaviour
MaxVal == 2         \* column values are None (0) and 1..MaxVal
MaxKeys == 2        \* key tuples / records per gateway call
MaxRows == 2        \* rows in the table

(***************************************************************************)
(* Transaction scopes: query_test.py                                       *)
(***************************************************************************)

\* The kinds of failure a unit of work can end with.  Both are what Python
\* hands to __aexit__ as exc_value; asyncio.CancelledError derives from
\* BaseException, not from Exception.
Failures == {"Exception", "CancelledError"}

\* isinstance(exc_value, Exception)
IsInstanceOfException(exc_value) == exc_value = "Exception"

\* Tx.__aenter__: the statement handed to conn.execute
Tx__aenter__(level) ==
    IF level = 0
    THEN [verb |-> "BEGIN", savepoint |-> <<>>, sql |-> "BEGIN TRANSACTION;"]
    ELSE [verb |-> "SAVEPOINT", savepoint |-> <<level>>,
          sql |-> "SAVEPOINT \"" \o ToString(level) \o "\";"]

\* Tx.__aexit__: the statement handed to conn.execute
Tx__aexit__(level, exc_value) ==
    IF IsInstanceOfException(exc_value)
    THEN IF level = 0
         THEN [verb |-> "ROLLBACK", savepoint |-> <<>>, sql |-> "ROLLBACK;"]
         ELSE [verb |-> "ROLLBACK TO SAVEPOINT", savepoint |-> <<level>>,
               sql |-> "ROLLBACK TO SAVEPOINT \"" \o ToString(level)]
    ELSE IF level = 0
         THEN [verb |-> "COMMIT", savepoint |-> <<>>, sql |-> "COMMIT;"]
         ELSE [verb |-> "RELEASE SAVEPOINT", savepoint |-> <<level>>,
               sql |-> "RELEASE SAVEPOINT \"" \o ToString(level)]

\* The counter after TestSQLHandle.transaction()
TxLevelAfterOpen(level) == level + 1

\* The counter after Tx.__aexit__ (the method does not touch the handle)
TxLevelAfterExit(level) == level

\* TestSQLHandle.__init__: tx_level = 0, no scope open; no gateway call made
InitTx ==
    /\ tx_level = 0
    /\ pending = <<>>
    /\ stack = <<>>
    /\ exc = "none"
    /\ unwound = 0
    /\ emitted = <<>>
    /\ caller_exc = <<>>
    /\ opened = 0
    /\ primary_key = [some |-> FALSE, fields |-> {}]
    /\ table = EmptyBag
    /\ op = [name |-> "none"]
    /\ calls = <<>>
    /\ rows = <<>>
    /\ changes = {}
    /\ result = [kind |-> "none"]

\* TestSQLHandle.transaction(): tx = Tx(conn, tx_level); tx_level += 1
\* The scope is opened from inside the innermost open unit of work.
transaction ==
    /\ exc = "none"
    /\ pending = <<>>
    /\ opened < MaxScopes
    /\ pending' = <<[level |-> tx_level, depth |-> Len(stack)]>>
    /\ tx_level' = TxLevelAfterOpen(tx_level)
    /\ opened' = opened + 1
    /\ UNCHANGED <<stack, exc, unwound, emitted, caller_exc>>
    /\ UNCHANGED gwvars

\* `async with tx:` entering: Tx.__aenter__
aenter ==
    /\ pending # <<>>
    /\ LET tx == pending[1] IN
       /\ emitted' = Append(emitted,
              [phase |-> "enter", depth |-> tx.depth, level |-> tx.level,
               exc_value |-> "none", stmts |-> << Tx__aenter__(tx.level) >>])
       /\ stack' = Append(stack, tx)
    /\ pending' = <<>>
    /\ UNCHANGED <<tx_level, exc, unwound, caller_exc, opened>>
    /\ UNCHANGED gwvars

\* The unit of work of the innermost open scope raises.
Raise ==
    /\ exc = "none"
    /\ pending = <<>>
    /\ stack # <<>>
    /\ \E e \in Failures : exc' = e
    /\ unwound' = 0
    /\ UNCHANGED <<tx_level, pending, stack, emitted, caller_exc, opened>>
    /\ UNCHANGED gwvars

\* The `async with` block of the innermost scope ends: Tx.__aexit__ is called
\* with the failure in flight (or with None).  It returns None, so the failure
\* is re-raised into the enclosing unit of work.
aexit ==
    /\ pending = <<>>
    /\ stack # <<>>
    /\ LET tx == stack[Len(stack)] IN
       /\ emitted' = Append(emitted,
              [phase |-> "exit", depth |-> tx.depth, level |-> tx.level,
               exc_value |-> exc, stmts |-> << Tx__aexit__(tx.level, exc) >>])
       /\ stack' = SubSeq(stack, 1, Len(stack) - 1)
    /\ tx_level' = TxLevelAfterExit(tx_level)
    /\ unwound' = IF exc = "none" THEN 0 ELSE unwound + 1
    /\ UNCHANGED <<pending, exc, caller_exc, opened>>
    /\ UNCHANGED gwvars

\* An enclosing unit of work catches the failure that left an inner scope.
Handle ==
    /\ exc # "none"
    /\ unwound > 0
    /\ stack # <<>>
    /\ exc' = "none"
    /\ unwound' = 0
    /\ UNCHANGED <<tx_level, pending, stack, emitted, caller_exc, opened>>
    /\ UNCHANGED gwvars

\* The failure leaves the outermost scope and reaches its caller.
ReachCaller ==
    /\ exc # "none"
    /\ stack = <<>>
    /\ caller_exc' = Append(caller_exc, exc)
    /\ exc' = "none"
    /\ unwound' = 0
    /\ UNCHANGED <<tx_level, pending, stack, emitted, opened>>
    /\ UNCHANGED gwvars

NextTx ==
    \/ transaction
    \/ aenter
    \/ Raise
    \/ aexit
    \/ Handle
    \/ ReachCaller

SpecTx == InitTx /\ [][NextTx]_vars

(***************************************************************************)
(* Table gateway: common.py                                                *)
(*                                                                         *)
(* Column values are integers: NULL (Python None, SQL NULL) and 1..MaxVal. *)
(* Tuples (keys, records, rows) are sequences of values.  A rendered       *)
(* statement is kept as the record of its clauses; the handle evaluates it *)
(* by the relational meaning of those clauses.                             *)
(***************************************************************************)

NULL == 0
Values == 0..MaxVal

\* TableMetadata.columns of the gateway under test: (id, name)
columns == << [column_name |-> "id", field_name |-> "id"],
              [column_name |-> "name", field_name |-> "name"] >>

FieldNames == {columns[i].field_name : i \in DOMAIN columns}

\* The tuples a caller may pass as a key or as a record: of any arity up to a
\* full record's, so shorter and longer than the selected columns
Tuples == UNION {[1..n -> Values] : n \in 1..Len(columns)}
TupleLists == UNION {[1..n -> Tuples] : n \in 0..MaxKeys}

\* typing.NamedTuple records of the table: one value per column
Records == [1..Len(columns) -> Values]
RecordLists == UNION {[1..n -> Records] : n \in 0..MaxKeys}

\* The slot get_by returns for a key without a row (dict.get default)
PyNone == [type |-> "NoneType"]

\* self.constructor(row): the record built from a raw row
constructor(row) == [type |-> "Record", values |-> row]

Min(S) == CHOOSE x \in S : \A y \in S : x <= y

\* All orders in which the elements of a finite set can be listed
Perms(S) ==
    {f \in [1..Cardinality(S) -> S] : \A i, j \in 1..Cardinality(S) : f[i] = f[j] => i = j}

\* {c: i for i, c in enumerate(columns) if c.field_name in by}: the indices of
\* the selected columns, in column order
ColumnsIn(fields) ==
    SelectSeq([i \in 1..Len(columns) |-> i], LAMBDA i : columns[i].field_name \in fields)

\* (list(arg_sec) for arg_sec in zip(*keys)): one array per tuple position,
\* stopping at the shortest tuple
ZipArguments(tuples) ==
    IF tuples = <<>> THEN <<>>
    ELSE LET m == Min({Len(tuples[i]) : i \in DOMAIN tuples}) IN
         [j \in 1..m |-> [i \in 1..Len(tuples) |-> tuples[i][j]]]

\* ([getattr(rec, col.column_name) for rec in records] for col in matches)
AttrArguments(records, cols) ==
    [j \in 1..Len(cols) |-> [i \in 1..Len(records) |-> records[i][cols[j]]]]

\* _render_unnested_selection(cols): SELECT DISTINCT ON (__k.*) ... FROM
\* UNNEST($1::t[], ..., $M::t[]) AS __k(cols)
_render_unnested_selection(cols) ==
    [distinct |-> TRUE, params |-> Len(cols), cols |-> cols]

\* _render_tk_match(t, k, columns): "t.c = k.c" for each column, joined by AND
_render_tk_match(cols) ==
    [connective |-> "AND", comparison |-> "=", cols |-> cols]

\* ---- the handle: the relational meaning of the rendered clauses ----

\* The relation an unnested selection yields for the bound arrays (DISTINCT)
Unnest(args) ==
    IF args = <<>> THEN {}
    ELSE {[j \in 1..Len(args) |-> args[j][i]] : i \in 1..Len(args[1])}

\* SQL "=": true only between two non-null equal values
SqlEq(a, b) == a # NULL /\ b # NULL /\ a = b

\* The value of column c in row v of an unnested selection
CteValue(with, v, c) == v[CHOOSE j \in DOMAIN with.cols : with.cols[j] = c]

\* A rendered match predicate between table row t and row v of the unnested
\* selection `with`
EvalMatch(pred, with, t, v) ==
    \A c \in {pred.cols[j] : j \in DOMAIN pred.cols} : SqlEq(t[c], CteValue(with, v, c))

\* USING (cols) between key row k (one value per selected column) and table row t
UsingMatch(cols, k, t) == \A j \in DOMAIN cols : SqlEq(k[j], t[cols[j]])

\* The table's rows, one item per stored copy
TableItems(tbl) == UNION {{<<r, c>> : c \in 1..tbl[r]} : r \in DOMAIN tbl}

NullRow == [i \in 1..Len(columns) |-> NULL]

\* A driver refuses a statement bound with another number of arrays than it
\* has placeholders
BindOk(sql, args) == Len(args) = sql.with.params

\* FROM __k JOIN t USING (cols), SELECT DISTINCT ON (key) __t.*: one row per
\* key that has a row, in any order; which row when a key has several is open
JoinDistinctResults(sql, args, tbl) ==
    LET ks == {k \in Unnest(args) :
                  \E t \in DOMAIN tbl : UsingMatch(sql.using, k, t)}
        picks == {f \in [ks -> DOMAIN tbl] :
                  \A k \in ks : UsingMatch(sql.using, k, f[k])}
    IN  {[i \in 1..Cardinality(ks) |-> f[p[i]]] : f \in picks, p \in Perms(ks)}

\* FROM __k LEFT JOIN t USING (cols), SELECT __t.*: every matching row of
\* every key, and one all-null row for a key without a row, in any order
LeftJoinResults(sql, args, tbl) ==
    LET items == UNION {
            IF \E t \in DOMAIN tbl : UsingMatch(sql.using, k, t)
            THEN {<<k, it[1], it[2]>> : it \in
                     {x \in TableItems(tbl) : UsingMatch(sql.using, k, x[1])}}
            ELSE {<<k, NullRow, 1>>}
            : k \in Unnest(args)}
    IN  {[i \in 1..Cardinality(items) |-> p[i][2]] : p \in Perms(items)}

\* ---- TableGateway.get_by / find_by ----

GetBySql(m) ==
    [with |-> _render_unnested_selection(m), select |-> "DISTINCT ON",
     join |-> "JOIN", using |-> m]

FindBySql(m) ==
    [with |-> _render_unnested_selection(m), select |-> "ALL",
     join |-> "LEFT JOIN", using |-> m]

\* Mutant of RowKey: the key read from the row's first positions instead of
\* the matched column positions
RowKey_Positional(row, m) == [j \in 1..Len(m) |-> row[j]]

\* tuple(row[i] for i in matches.values())
RowKey(row, m) == [j \in 1..Len(m) |-> row[m[j]]]

\* get_by's loop over the rows: key_objs[key] = obj
RECURSIVE GetByKeyObjs(_, _)
GetByKeyObjs(rs, m) ==
    IF rs = <<>> THEN <<>>
    ELSE LET d == GetByKeyObjs(SubSeq(rs, 1, Len(rs) - 1), m)
             row == rs[Len(rs)]
             key == RowKey(row, m)
         IN  [k \in DOMAIN d \cup {key} |-> IF k = key THEN constructor(row) ELSE d[k]]

\* Mutant of FindByKeyObjs: each row replaces its key's list instead of
\* being appended to it
FindByKeyObjs_KeepLast(rs, m) ==
    [k \in DOMAIN GetByKeyObjs(rs, m) |-> << GetByKeyObjs(rs, m)[k] >>]

\* find_by's loop over the rows: key_objs[key].append(obj)
RECURSIVE FindByKeyObjs(_, _)
FindByKeyObjs(rs, m) ==
    IF rs = <<>> THEN <<>>
    ELSE LET d == FindByKeyObjs(SubSeq(rs, 1, Len(rs) - 1), m)
             row == rs[Len(rs)]
             key == RowKey(row, m)
         IN  [k \in DOMAIN d \cup {key} |->
                 IF k = key
                 THEN (IF key \in DOMAIN d THEN Append(d[key], constructor(row))
                       ELSE << constructor(row) >>)
                 ELSE d[k]]

\* [key_objs.get(key) for key in keys]
GetByReturn(key_objs, keys) ==
    [i \in 1..Len(keys) |->
        IF keys[i] \in DOMAIN key_objs THEN key_objs[keys[i]] ELSE PyNone]

\* [key_objs.get(key, []) for key in keys]
FindByReturn(key_objs, keys) ==
    [i \in 1..Len(keys) |->
        IF keys[i] \in DOMAIN key_objs THEN key_objs[keys[i]] ELSE <<>>]

ExecutionError == [kind |-> "raise", error |-> "ExecutionError"]
NoPrimaryKey == [kind |-> "raise", error |-> "Exception: Table has no primary key"]

get_by ==
    /\ op.name = "none"
    /\ \E by \in SUBSET FieldNames \ {{}}, keys \in TupleLists :
        LET m == ColumnsIn(by)
            sql == GetBySql(m)
            arguments == ZipArguments(keys)
        IN  /\ op' = [name |-> "get_by", by |-> by, keys |-> keys, before |-> table]
            /\ calls' = << [method |-> "query", sql |-> sql, args |-> arguments] >>
            /\ IF BindOk(sql, arguments)
               THEN \E rs \in JoinDistinctResults(sql, arguments, table) :
                       /\ rows' = rs
                       /\ result' = [kind |-> "return",
                                     value |-> GetByReturn(GetByKeyObjs(rs, m), keys)]
               ELSE rows' = <<>> /\ result' = ExecutionError
            /\ UNCHANGED <<primary_key, table, changes>>
            /\ UNCHANGED txvars

find_by ==
    /\ op.name = "none"
    /\ \E by \in SUBSET FieldNames \ {{}}, keys \in TupleLists :
        LET m == ColumnsIn(by)
            sql == FindBySql(m)
            arguments == ZipArguments(keys)
        IN  /\ op' = [name |-> "find_by", by |-> by, keys |-> keys, before |-> table]
            /\ calls' = << [method |-> "query", sql |-> sql, args |-> arguments] >>
            /\ IF BindOk(sql, arguments)
               THEN \E rs \in LeftJoinResults(sql, arguments, table) :
                       /\ rows' = rs
                       /\ result' = [kind |-> "return",
                                     value |-> FindByReturn(FindByKeyObjs(rs, m), keys)]
               ELSE rows' = <<>> /\ result' = ExecutionError
            /\ UNCHANGED <<primary_key, table, changes>>
            /\ UNCHANGED txvars


\* ---- TableGateway.insert / save / delete ----

\* Mutant of NotPk: `if pk is None`, which lets the empty set through
NotPk_IsNone(pk) == ~pk.some

\* `if not pk`: None and the empty set alike
NotPk(pk) == ~pk.some \/ pk.fields = {}

AllColumns == [i \in 1..Len(columns) |-> i]

\* The key constraint the database keeps on the table: the metadata's primary key
PkCols == IF NotPk(primary_key) THEN <<>> ELSE ColumnsIn(primary_key.fields)
PkOf(row) == RowKey(row, PkCols)
HasNullPk(row) == \E j \in DOMAIN PkCols : row[PkCols[j]] = NULL

InsertSql ==
    [with |-> _render_unnested_selection(AllColumns), verb |-> "INSERT"]

\* {c for c in columns if c.field_name in pk}, {c ... not in pk}
SaveSql(pk) ==
    [with |-> _render_unnested_selection(AllColumns), verb |-> "INSERT",
     conflict |-> ColumnsIn(pk), set |-> AllColumns,
     where |-> _render_tk_match(ColumnsIn(FieldNames \ pk))]

DeleteSql(pk) ==
    [with |-> _render_unnested_selection(ColumnsIn(pk)), verb |-> "DELETE",
     where |-> _render_tk_match(ColumnsIn(pk))]

\* INSERT INTO t SELECT * FROM __v: refused as a whole when a row breaks the
\* table's key constraint
InsertViolates(tbl, incoming) ==
    /\ PkCols # <<>>
    /\ \/ \E v \in incoming : HasNullPk(v)
       \/ \E v \in incoming, t \in DOMAIN tbl : PkOf(v) = PkOf(t)
       \/ \E v, w \in incoming : v # w /\ PkOf(v) = PkOf(w)

\* INSERT ... ON CONFLICT (key) DO UPDATE ... WHERE pred, one source row at a
\* time: a row without a conflict is inserted; a conflicting row is rewritten
\* when pred holds; a second conflict on a row this statement already wrote is
\* an error
UpsertRow(sql, st, v) ==
    IF ~st.ok THEN st
    ELSE IF HasNullPk(v) THEN [st EXCEPT !.ok = FALSE]
    ELSE LET conflicts == {t \in DOMAIN st.tbl : PkOf(t) = PkOf(v)} IN
         IF conflicts = {}
         THEN [st EXCEPT !.tbl = @ (+) SetToBag({v}),
                         !.touched = @ \cup {PkOf(v)},
                         !.changes = @ \cup {[event |-> "INSERT", old |-> NullRow, new |-> v]}]
         ELSE LET t == CHOOSE t \in conflicts : TRUE IN
              IF PkOf(v) \in st.touched THEN [st EXCEPT !.ok = FALSE]
              ELSE IF EvalMatch(sql.where, sql.with, t, v)
              THEN [st EXCEPT !.tbl = (@ (-) SetToBag({t})) (+) SetToBag({v}),
                              !.touched = @ \cup {PkOf(v)},
                              !.changes = @ \cup {[event |-> "UPDATE", old |-> t, new |-> v]}]
              ELSE st

RECURSIVE UpsertRows(_, _, _)
UpsertRows(sql, st, vs) ==
    IF vs = <<>> THEN st
    ELSE UpsertRow(sql, UpsertRows(sql, st, SubSeq(vs, 1, Len(vs) - 1)), vs[Len(vs)])

\* DELETE FROM t USING __k WHERE pred: the rows some key row matches
DeletedRows(sql, args, tbl) ==
    {t \in DOMAIN tbl : \E k \in Unnest(args) : EvalMatch(sql.where, sql.with, t, k)}

insert ==
    /\ op.name = "none"
    /\ \E records \in TupleLists :
        LET sql == InsertSql
            arguments == ZipArguments(records)
            incoming == Unnest(arguments)
            refused == ~BindOk(sql, arguments) \/ InsertViolates(table, incoming)
        IN  /\ refused \/ BagCardinality(table) + Cardinality(incoming) <= MaxRows
            /\ op' = [name |-> "insert", records |-> records, before |-> table]
            /\ calls' = << [method |-> "exec", sql |-> sql, args |-> arguments] >>
            /\ rows' = <<>>
            /\ IF refused
               THEN table' = table /\ changes' = {} /\ result' = ExecutionError
               ELSE /\ table' = table (+) SetToBag(incoming)
                    /\ changes' = {[event |-> "INSERT", old |-> NullRow, new |-> v] :
                                      v \in incoming}
                    /\ result' = [kind |-> "return"]
            /\ UNCHANGED primary_key
            /\ UNCHANGED txvars

save ==
    /\ op.name = "none"
    /\ \E records \in TupleLists :
        /\ op' = [name |-> "save", records |-> records, before |-> table]
        /\ rows' = <<>>
        /\ IF NotPk(primary_key)
           THEN /\ calls' = <<>>
                /\ table' = table /\ changes' = {}
                /\ result' = NoPrimaryKey
           ELSE LET sql == SaveSql(primary_key.fields)
                    arguments == ZipArguments(records)
                    incoming == Unnest(arguments)
                IN  /\ calls' = << [method |-> "exec", sql |-> sql, args |-> arguments] >>
                    /\ IF ~BindOk(sql, arguments)
                       THEN table' = table /\ changes' = {} /\ result' = ExecutionError
                       ELSE \E order \in Perms(incoming) :
                               LET st == UpsertRows(sql,
                                            [tbl |-> table, touched |-> {},
                                             changes |-> {}, ok |-> TRUE], order)
                               IN  /\ ~st.ok \/ BagCardinality(st.tbl) <= MaxRows
                                   /\ IF st.ok
                                      THEN /\ table' = st.tbl
                                           /\ changes' = st.changes
                                           /\ result' = [kind |-> "return"]
                                      ELSE /\ table' = table
                                           /\ changes' = {}
                                           /\ result' = ExecutionError
        /\ UNCHANGED primary_key
        /\ UNCHANGED txvars

delete ==
    /\ op.name = "none"
    /\ \E records \in RecordLists :
        /\ op' = [name |-> "delete", records |-> records, before |-> table]
        /\ rows' = <<>>
        /\ IF NotPk(primary_key)
           THEN /\ calls' = <<>>
                /\ table' = table /\ changes' = {}
                /\ result' = NoPrimaryKey
           ELSE LET m == ColumnsIn(primary_key.fields)
                    sql == DeleteSql(primary_key.fields)
                    arguments == AttrArguments(records, m)
                    gone == DeletedRows(sql, arguments, table)
                IN  /\ calls' = << [method |-> "exec", sql |-> sql, args |-> arguments] >>
                    /\ table' = [r \in DOMAIN table \ gone |-> table[r]]
                    /\ changes' = {[event |-> "DELETE", old |-> t, new |-> NullRow] :
                                      t \in gone}
                    /\ result' = [kind |-> "return"]
        /\ UNCHANGED primary_key
        /\ UNCHANGED txvars

\* The gateways under test: TableMetadata.primary_key None, empty, or {id}
PrimaryKeys ==
    { [some |-> FALSE, fields |-> {}],
      [some |-> TRUE, fields |-> {}],
      [some |-> TRUE, fields |-> {"id"}] }

\* A gateway over an empty table, its session unused
InitGw ==
    /\ tx_level = 0
    /\ pending = <<>>
    /\ stack = <<>>
    /\ exc = "none"
    /\ unwound = 0
    /\ emitted = <<>>
    /\ caller_exc = <<>>
    /\ opened = 0
    /\ primary_key \in PrimaryKeys
    /\ table = EmptyBag
    /\ op = [name |-> "none"]
    /\ calls = <<>>
    /\ rows = <<>>
    /\ changes = {}
    /\ result = [kind |-> "none"]

\* The caller's `await` of the operation ends: it has the result (or the
\* error) and is free to call the gateway again.
ReturnToCaller ==
    /\ op.name # "none"
    /\ op' = [name |-> "none"]
    /\ calls' = <<>>
    /\ rows' = <<>>
    /\ changes' = {}
    /\ result' = [kind |-> "none"]
    /\ UNCHANGED <<primary_key, table>>
    /\ UNCHANGED txvars

NextGw ==
    \/ ReturnToCaller
    \/ get_by
    \/ find_by
    \/ insert
    \/ save
    \/ delete

SpecGw == InitGw /\ [][NextGw]_vars

(***************************************************************************)
(* Claims about the transaction scopes (checked under SpecTx)              *)
(***************************************************************************)

ExitEntries == {i \in DOMAIN emitted : emitted[i].phase = "exit"}
EnterEntries == {i \in DOMAIN emitted : emitted[i].phase = "enter"}

\* The statement a scope at nesting depth d must emit on entry
EntryNamesDepth(e) ==
    /\ Len(e.stmts) = 1
    /\ IF e.depth = 0
       THEN e.stmts[1].verb = "BEGIN"
       ELSE e.stmts[1].verb = "SAVEPOINT" /\ e.stmts[1].savepoint = <<e.depth>>

\* The exit statement of a scope at nesting depth d names d (nothing at depth 0)
ExitNamesDepth(e) ==
    /\ Len(e.stmts) = 1
    /\ e.stmts[1].savepoint = (IF e.depth = 0 THEN <<>> ELSE <<e.depth>>)
    /\ e.stmts[1].verb \in (IF e.depth = 0 THEN {"COMMIT", "ROLLBACK"}
                            ELSE {"RELEASE SAVEPOINT", "ROLLBACK TO SAVEPOINT"})

\* C1: a scope opened with L scopes open around it emits BEGIN on entry when
\* L = 0 and SAVEPOINT L when L > 0, and its exit statement names the same
\* level L (ROLLBACK / COMMIT at L = 0, ... SAVEPOINT L at L > 0).
C1_ScopeStatementsFollowDepth ==
    /\ \A i \in EnterEntries : EntryNamesDepth(emitted[i])
    /\ \A i \in ExitEntries : ExitNamesDepth(emitted[i])

\* C2: the nesting counter equals the number of currently open scopes (it is
\* incremented by every open and decremented by every exit), so it is 0 once
\* every scope has exited.
C2_CounterCountsOpenScopes ==
    tx_level = Len(stack) + Len(pending)

\* C3: a scope exit emits exactly one statement: after any failure ROLLBACK
\* (level 0) or ROLLBACK TO SAVEPOINT <level> (level > 0), after a normal end
\* COMMIT (level 0) or RELEASE SAVEPOINT <level> (level > 0).
C3_ExitStatementByOutcome ==
    \A i \in ExitEntries :
        LET e == emitted[i] IN
        /\ Len(e.stmts) = 1
        /\ e.stmts[1].savepoint = (IF e.level = 0 THEN <<>> ELSE <<e.level>>)
        /\ e.stmts[1].verb =
              (IF e.exc_value # "none"
               THEN (IF e.level = 0 THEN "ROLLBACK" ELSE "ROLLBACK TO SAVEPOINT")
               ELSE (IF e.level = 0 THEN "COMMIT" ELSE "RELEASE SAVEPOINT"))

\* C4: a failure that leaves a scope is never suppressed by that scope, and
\* every scope it leaves, at depth d, emits ROLLBACK TO SAVEPOINT d (d > 0) or
\* ROLLBACK (d = 0), never COMMIT or RELEASE SAVEPOINT.
C4_FailureUnwindsWithRollbacks ==
    /\ unwound > 0 => exc # "none"
    /\ \A i \in ExitEntries :
          LET e == emitted[i] IN
          e.exc_value # "none" =>
             /\ Len(e.stmts) = 1
             /\ IF e.depth = 0
                THEN e.stmts[1].verb = "ROLLBACK"
                ELSE /\ e.stmts[1].verb = "ROLLBACK TO SAVEPOINT"
                     /\ e.stmts[1].savepoint = <<e.depth>>

(***************************************************************************)
(* Claims about the table gateway (checked under SpecGw)                   *)
(***************************************************************************)

\* The operation that just ran was called with tuples of exactly n values
WellFormed(tuples, n) == \A i \in DOMAIN tuples : Len(tuples[i]) = n

\* The `by` columns of a row, in column order
ByColumns(row, by) == [j \in 1..Len(ColumnsIn(by)) |-> row[ColumnsIn(by)[j]]]

\* The stored rows (one item per copy) whose `by` columns equal key k; a null
\* never equals anything
MatchingItems(tbl, by, k) ==
    {it \in TableItems(tbl) :
        /\ Len(k) = Len(ColumnsIn(by))
        /\ \A j \in DOMAIN k : k[j] # NULL /\ it[1][ColumnsIn(by)[j]] = k[j]}

LookupReturned(name) ==
    /\ op.name = name
    /\ result.kind = "return"
    /\ WellFormed(op.keys, Len(ColumnsIn(op.by)))

\* C5: when each key matches at most one table row, get_by returns one slot
\* per key, in key order: the record of the row whose `by` columns equal the
\* key, or the empty slot when there is no such row, whatever the order of the
\* returned rows and for every occurrence of a repeated key.
C5_GetByOrderPreserved ==
    ( /\ LookupReturned("get_by")
      /\ \A i \in DOMAIN op.keys :
            Cardinality(MatchingItems(table, op.by, op.keys[i])) <= 1 )
    => /\ Len(result.value) = Len(op.keys)
       /\ \A i \in DOMAIN op.keys :
             LET ms == MatchingItems(table, op.by, op.keys[i]) IN
             IF ms = {} THEN result.value[i] = PyNone
             ELSE \E it \in ms : result.value[i] = [type |-> "Record", values |-> it[1]]

\* C5 witness: two different keys, each with one row, whose rows came back in
\* the opposite order
C5_Witness ==
    /\ LookupReturned("get_by")
    /\ Len(op.keys) = 2 /\ Len(rows) = 2
    /\ op.keys[1] # op.keys[2]
    /\ \A i \in DOMAIN op.keys :
          Cardinality(MatchingItems(table, op.by, op.keys[i])) = 1
    /\ ByColumns(rows[1], op.by) = op.keys[2]
    /\ ByColumns(rows[2], op.by) = op.keys[1]
    /\ result.value[1].values = rows[2]

\* C6: a key without a matching table row gets the empty slot from get_by and
\* an empty list from find_by, whatever its components (null included), and
\* the operation does not raise.
C6_MissingKeyIsEmpty ==
    /\ ( /\ op.name \in {"get_by", "find_by"}
         /\ op.keys # <<>>
         /\ WellFormed(op.keys, Len(ColumnsIn(op.by))) )
       => result.kind = "return"
    /\ \A name \in {"get_by", "find_by"} :
          LookupReturned(name) =>
             \A i \in DOMAIN op.keys :
                MatchingItems(table, op.by, op.keys[i]) = {}
                   => result.value[i] = (IF name = "get_by" THEN PyNone ELSE <<>>)

\* The records of the returned rows whose `by` columns equal key k, in
\* returned order
RECURSIVE RecordsFor(_, _, _)
RecordsFor(rs, by, k) ==
    IF rs = <<>> THEN <<>>
    ELSE IF ByColumns(rs[1], by) = k
         THEN << [type |-> "Record", values |-> rs[1]] >> \o RecordsFor(Tail(rs), by, k)
         ELSE RecordsFor(Tail(rs), by, k)

\* C7: find_by returns one list per key, in key order; list i holds exactly
\* the records of the returned rows whose `by` columns equal key i, each once
\* and in returned order, so no row lands in another key's list and a repeated
\* key gets an equal list.
C7_FindByGroupsRows ==
    LookupReturned("find_by")
    => /\ Len(result.value) = Len(op.keys)
       /\ \A i \in DOMAIN op.keys :
             result.value[i] = RecordsFor(rows, op.by, op.keys[i])

\* C7 witness: one key with two rows that differ, another key with none
C7_Witness ==
    /\ LookupReturned("find_by")
    /\ Len(op.keys) = 2
    /\ Len(result.value[1]) = 2
    /\ result.value[1][1] # result.value[1][2]
    /\ Cardinality(MatchingItems(table, op.by, op.keys[1])) = 2
    /\ result.value[2] = <<>>

\* C8: save and delete on a gateway whose metadata has no primary key (None
\* or the empty set) fail with the configuration error, for every batch, and
\* the handle receives no call.
C8_NoPrimaryKeyNoStatement ==
    ( /\ op.name \in {"save", "delete"}
      /\ (primary_key.some => primary_key.fields = {}) )
    => /\ result.kind = "raise"
       /\ result.error = "Exception: Table has no primary key"
       /\ calls = <<>>
       /\ table = op.before

\* C8 witness: a delete of a non-empty batch refused for an empty key set
C8_Witness ==
    /\ op.name = "delete"
    /\ primary_key = [some |-> TRUE, fields |-> {}]
    /\ Len(op.records) = 2
    /\ table # EmptyBag
    /\ result.kind = "raise"
    /\ calls = <<>>

\* The number of values each tuple of the last call should have had
ExpectedArity ==
    IF op.name \in {"get_by", "find_by"} THEN Len(ColumnsIn(op.by)) ELSE Len(columns)

\* C9: when the tuples given to get_by, find_by, insert or save do not all
\* have the arity of the selected columns, the operation fails with a
\* validation error and no statement reaches the handle.
C9_ArityMismatchRejected ==
    ( /\ op.name \in {"get_by", "find_by", "insert", "save"}
      /\ (op.name = "save" => primary_key.some /\ primary_key.fields # {})
      /\ ~WellFormed(IF op.name \in {"get_by", "find_by"} THEN op.keys ELSE op.records,
                     ExpectedArity) )
    => /\ result.kind = "raise"
       /\ result.error = "ValidationError"
       /\ calls = <<>>

\* C10: in save, a record whose key equals an existing row's overwrites that
\* row exactly when at least one of its setter columns differs from the row;
\* a record that changes nothing writes nothing.
C10_UpdateOnlyWhenDifferent ==
    ( /\ op.name = "save"
      /\ result.kind = "return"
      /\ WellFormed(op.records, Len(columns)) )
    => \A i \in DOMAIN op.records :
          \A t \in DOMAIN op.before :
             LET v == op.records[i]
                 keycols == ColumnsIn(primary_key.fields)
                 setcols == ColumnsIn(FieldNames \ primary_key.fields)
             IN  (\A j \in DOMAIN keycols : t[keycols[j]] = v[keycols[j]])
                 => ( [event |-> "UPDATE", old |-> t, new |-> v] \in changes
                      <=> \E j \in DOMAIN setcols : t[setcols[j]] # v[setcols[j]] )

====
